---------------------------- MODULE Spec2Model ----------------------------
(***************************************************************************)
(* A model of the SOCKS 5 server library go.socks5: the wire codec         *)
(* (Address / Msg ReadFrom and WriteTo), the reply mapper (ReplyError),    *)
(* the method negotiation (authConn), the request dispatcher (handleConn,  *)
(* makeReply) and the relay (doCopy).                                      *)
(*                                                                         *)
(* Bytes are the integers 0..255, byte slices and strings are sequences    *)
(* of bytes, a nil slice and the empty string are the empty sequence.      *)
(***************************************************************************)
EXTENDS Integers, Sequences, FiniteSets, TLC

(***************************************************************************)
(* Protocol constants (the const block of the marshalling file).           *)
(***************************************************************************)
VER == 5
NO_AUTH_REQUIRED == 0
NO_ACCEPTABLE_METHODS == 255
REQ_CONNECT == 1
REQ_BIND == 2
REQ_UDP_ASSOCIATE == 3
ATYP_IPV4 == 1
ATYP_DOMAINNAME == 3
ATYP_IPV6 == 4
REP_SUCCESS == 0
REP_GENERAL_SERVER_FAILURE == 1
REP_CMD_NOT_SUPPORTED == 7
REP_ATYP_NOT_SUPPORTED == 8

(***************************************************************************)
(* Error values.  NoErr is Go's nil error.  The marshalling errors are the *)
(* package variables BadVer, BadRsv, BadAtyp, BadStr; an I/O error of a    *)
(* writer carries the number of the Write call that produced it, so that   *)
(* two write errors of one writer are different values (field v).          *)
(***************************************************************************)
NoErr == [kind |-> "nil", v |-> 0]
BadVer == [kind |-> "BadVer", v |-> 0]
BadRsv == [kind |-> "BadRsv", v |-> 0]
BadAtyp == [kind |-> "BadAtyp", v |-> 0]
BadStr == [kind |-> "BadStr", v |-> 0]
EOF == [kind |-> "EOF", v |-> 0]
WriteErr(k) == [kind |-> "io", v |-> k]
\* a ReplyCode used as an error value, and an error of any other type
ReplyCode(c) == [kind |-> "ReplyCode", v |-> c]
Opaque(i) == [kind |-> "opaque", v |-> i]

\* ReplyError with the type test dropped: any non-nil error gives its value
ReplyErrorUnchecked(err) ==
    IF err = NoErr THEN REP_SUCCESS ELSE err.v

\* ReplyError(err): the reply byte for an error
ReplyError(err) ==
    IF err = NoErr THEN REP_SUCCESS
    ELSE IF err.kind # "ReplyCode" THEN REP_GENERAL_SERVER_FAILURE
    ELSE err.v

(***************************************************************************)
(* Bounds of the model.                                                    *)
(***************************************************************************)
\* domain names of every length 0..MaxShortName are tried, next to the
\* lengths around the one-byte limit
MaxShortName == 2
\* a writer may be set to fail at its k-th Write call, k in 1..MaxFailAt
MaxFailAt == 6
\* the client sends at most MaxClientSends payload bytes after its opening
\* bytes, the backend at most MaxBackendSends
MaxClientSends == 2
MaxBackendSends == 2

Min(a, b) == IF a <= b THEN a ELSE b
Zeros(k) == [i \in 1..k |-> 0]
Take(s, k) == SubSeq(s, 1, Min(k, Len(s)))
Drop(s, k) == SubSeq(s, Min(k, Len(s)) + 1, Len(s))

(***************************************************************************)
(* io.Writer.  A writer keeps the bytes it accepted (out) and the list of  *)
(* the Write calls made on it (calls: the bytes offered and whether the    *)
(* call failed).  failAt = 0 is a writer that never fails; otherwise the   *)
(* failAt-th call fails, and when sticky every later call fails too (a     *)
(* broken connection) while a non-sticky writer recovers.  A failing call  *)
(* accepts no byte.                                                        *)
(***************************************************************************)
NewWriter(failAt, sticky) ==
    [out |-> <<>>, calls |-> <<>>, failAt |-> failAt, sticky |-> sticky]

WriterFails(w) ==
    LET k == Len(w.calls) + 1
    IN  /\ w.failAt # 0
        /\ IF w.sticky THEN k >= w.failAt ELSE k = w.failAt

\* w.Write(p): the count written, the error, and the writer afterwards
Write(w, p) ==
    LET k == Len(w.calls) + 1
    IN  IF WriterFails(w)
        THEN [n |-> 0, err |-> WriteErr(k),
              w |-> [w EXCEPT !.calls = Append(@, [p |-> p, ok |-> FALSE])]]
        ELSE [n |-> Len(p), err |-> NoErr,
              w |-> [w EXCEPT !.out = @ \o p,
                              !.calls = Append(@, [p |-> p, ok |-> TRUE])]]

(***************************************************************************)
(* io.Reader.  A reader is a byte stream: the bytes that have arrived      *)
(* (data), how many of them were read (pos), whether the stream has ended  *)
(* behind them (eof) and the most bytes one Read call hands out (seg, 0    *)
(* for no limit).  Read(buf) with an empty buf returns 0, nil; with        *)
(* nothing left to read it returns 0, EOF at the end of the stream and     *)
(* otherwise does not return yet (Block: the caller's step waits);         *)
(* otherwise it copies the bytes at hand, at most len(buf), into buf.      *)
(* buf is the caller's slice after the call.  NewReader is a reader of an  *)
(* in-memory buffer (bytes.Buffer).                                        *)
(***************************************************************************)
Block == [kind |-> "block", v |-> 0]

NewReader(data) == [data |-> data, pos |-> 0, eof |-> TRUE, seg |-> 0]

Read(r, buf) ==
    LET avail == Len(r.data) - r.pos
        most  == IF r.seg = 0 THEN avail ELSE Min(avail, r.seg)
        k     == Min(Len(buf), most)
    IN  IF Len(buf) = 0 THEN [n |-> 0, err |-> NoErr, buf |-> buf, r |-> r]
        ELSE IF avail = 0
        THEN [n |-> 0, err |-> IF r.eof THEN EOF ELSE Block, buf |-> buf, r |-> r]
        ELSE [n |-> k, err |-> NoErr,
              buf |-> [i \in 1..Len(buf) |->
                          IF i <= k THEN r.data[r.pos + i] ELSE buf[i]],
              r |-> [r EXCEPT !.pos = @ + k]]

(***************************************************************************)
(* Address and Msg values.                                                 *)
(***************************************************************************)
ZeroAddress == [Atyp |-> 0, IPAddr |-> <<>>, DomainName |-> <<>>]
ZeroMsg == [Code |-> 0, Addr |-> ZeroAddress, Port |-> 0]

\* the port written low byte first
PutUint16LittleEndian(v) == <<v % 256, (v \div 256) % 256>>

\* binary.BigEndian.PutUint16 and Uint16
PutUint16(v) == <<(v \div 256) % 256, v % 256>>
Uint16(b) == b[1] * 256 + b[2]

\* writeHelper: write p unless an earlier write of this call chain failed.
\* s is [n, err, w]: the running count, the running error and the writer.
writeHelper(s, p) ==
    IF s.err = NoErr
    THEN LET r == Write(s.w, p)
         IN  [n |-> s.n + r.n, err |-> r.err, w |-> r.w]
    ELSE s

\* (a *Address) WriteTo(w): n and err start as zero values of this call
AddressWriteTo(a, w) ==
    LET s0 == [n |-> 0, err |-> NoErr, w |-> w]
        s1 == writeHelper(s0, <<a.Atyp>>)
    IN  IF a.Atyp = ATYP_DOMAINNAME
        THEN LET size == Len(a.DomainName)
             IN  IF size >= 256
                 THEN [s1 EXCEPT !.err = BadStr]
                 ELSE writeHelper(writeHelper(s1, <<size % 256>>), a.DomainName)
        ELSE writeHelper(s1, a.IPAddr)

\* (m *Msg) WriteTo(w).  The result of Addr.WriteTo is assigned to err
\* whatever err held before.
MsgWriteTo(m, w) ==
    LET s0 == [n |-> 0, err |-> NoErr, w |-> w]
        s1 == writeHelper(s0, <<VER, m.Code, 0>>)
        ra == AddressWriteTo(m.Addr, s1.w)
        s2 == [n |-> s1.n + ra.n, err |-> ra.err, w |-> ra.w]
    IN  IF s2.err # NoErr THEN s2 ELSE writeHelper(s2, PutUint16(m.Port))

\* Address.ReadFrom without the default case: an unknown tag is read as if
\* it were followed by a 4-byte address
AddressReadFromNoDefault(a, r) ==
    LET t == Read(r, <<0>>)
    IN  IF t.err # NoErr
        THEN [n |-> t.n, err |-> t.err, a |-> a, r |-> t.r]
        ELSE LET a1 == [a EXCEPT !.Atyp = t.buf[1]]
                 ip == Read(t.r, Zeros(IF a1.Atyp = ATYP_IPV6 THEN 16 ELSE 4))
             IN  [n |-> t.n + ip.n, err |-> ip.err,
                  a |-> [a1 EXCEPT !.IPAddr = ip.buf], r |-> ip.r]

\* (a *Address) ReadFrom(r): the result carries the address as left in *a
AddressReadFrom(a, r) ==
    LET t == Read(r, <<0>>)
    IN  IF t.err # NoErr
        THEN [n |-> t.n, err |-> t.err, a |-> a, r |-> t.r]
        ELSE
          LET a1 == [a EXCEPT !.Atyp = t.buf[1]]
          IN  IF a1.Atyp = ATYP_IPV4 \/ a1.Atyp = ATYP_IPV6
              THEN LET ip == Read(t.r, Zeros(IF a1.Atyp = ATYP_IPV4 THEN 4 ELSE 16))
                   IN  [n |-> t.n + ip.n, err |-> ip.err,
                        a |-> [a1 EXCEPT !.IPAddr = ip.buf], r |-> ip.r]
              ELSE IF a1.Atyp = ATYP_DOMAINNAME
              THEN LET l == Read(t.r, <<0>>)
                   IN  IF l.err # NoErr
                       THEN [n |-> t.n + l.n, err |-> l.err, a |-> a1, r |-> l.r]
                       ELSE LET d == Read(l.r, Zeros(l.buf[1]))
                            IN  IF d.err # NoErr
                                THEN [n |-> t.n + l.n + d.n, err |-> d.err,
                                      a |-> a1, r |-> d.r]
                                ELSE [n |-> t.n + l.n + d.n, err |-> NoErr,
                                      a |-> [a1 EXCEPT !.DomainName = d.buf],
                                      r |-> d.r]
              ELSE [n |-> t.n, err |-> BadAtyp, a |-> a1, r |-> t.r]

\* (m *Msg) ReadFrom(r): the result carries the message as left in *m
MsgReadFrom(m, r) ==
    LET h == Read(r, Zeros(3))
    IN  IF h.err # NoErr THEN [n |-> h.n, err |-> h.err, m |-> m, r |-> h.r]
        ELSE IF h.buf[1] # VER THEN [n |-> h.n, err |-> BadVer, m |-> m, r |-> h.r]
        ELSE
          LET m1 == [m EXCEPT !.Code = h.buf[2]]
          IN  IF h.buf[3] # 0
              THEN [n |-> h.n, err |-> BadRsv, m |-> m1, r |-> h.r]
              ELSE
                LET ra == AddressReadFrom(m1.Addr, h.r)
                    m2 == [m1 EXCEPT !.Addr = ra.a]
                IN  IF ra.err # NoErr
                    THEN [n |-> h.n + ra.n, err |-> ra.err, m |-> m2, r |-> ra.r]
                    ELSE
                      LET p == Read(ra.r, Zeros(2))
                      IN  IF p.err # NoErr
                          THEN [n |-> h.n + ra.n + p.n, err |-> p.err,
                                m |-> m2, r |-> p.r]
                          ELSE [n |-> h.n + ra.n + p.n, err |-> NoErr,
                                m |-> [m2 EXCEPT !.Port = Uint16(p.buf)],
                                r |-> p.r]


(***************************************************************************)
(* Text.  A string is the sequence of its bytes (ASCII codes).  The        *)
(* operators below are the library conversions makeReply and handleConn    *)
(* go through: strconv.Itoa / Atoi, net.IP.String, net.JoinHostPort,       *)
(* net.SplitHostPort, net.ParseIP and net.TCPAddr.String.                  *)
(***************************************************************************)
ChDot == 46
ChColon == 58
ChLBracket == 91
ChRBracket == 93
ChPercent == 37
ChZero == 48
ChLowerA == 97

IsDigit(c) == c >= ChZero /\ c <= ChZero + 9
IsHexDigit(c) == IsDigit(c) \/ (c >= ChLowerA /\ c <= ChLowerA + 5)
HexVal(c) == IF IsDigit(c) THEN c - ChZero ELSE c - ChLowerA + 10
HexChar(d) == IF d < 10 THEN ChZero + d ELSE ChLowerA + d - 10

\* strconv.Itoa of a number >= 0
RECURSIVE Itoa(_)
Itoa(n) == IF n < 10 THEN <<ChZero + n>> ELSE Itoa(n \div 10) \o <<ChZero + (n % 10)>>

\* the value of a string of decimal digits
RECURSIVE DigitsVal(_)
DigitsVal(s) ==
    IF s = <<>> THEN 0
    ELSE DigitsVal(SubSeq(s, 1, Len(s) - 1)) * 10 + (s[Len(s)] - ChZero)

\* strconv.Atoi with its error dropped: 0 when s is not a decimal number
Atoi(s) ==
    IF s # <<>> /\ (\A i \in 1..Len(s) : IsDigit(s[i])) THEN DigitsVal(s) ELSE 0

\* the value of a string of hex digits
RECURSIVE HexDigitsVal(_)
HexDigitsVal(s) ==
    IF s = <<>> THEN 0
    ELSE HexDigitsVal(SubSeq(s, 1, Len(s) - 1)) * 16 + HexVal(s[Len(s)])

\* a number >= 0 in lower-case hex without leading zeros
RECURSIVE HexStr(_)
HexStr(n) ==
    IF n < 16 THEN <<HexChar(n)>> ELSE HexStr(n \div 16) \o <<HexChar(n % 16)>>

\* the fields of s between the separators sep (strings.Split)
RECURSIVE SplitOn(_, _)
SplitOn(s, sep) ==
    IF \A i \in 1..Len(s) : s[i] # sep THEN <<s>>
    ELSE LET k == CHOOSE i \in 1..Len(s) :
                      s[i] = sep /\ \A j \in 1..(i - 1) : s[j] # sep
         IN  <<SubSeq(s, 1, k - 1)>> \o SplitOn(SubSeq(s, k + 1, Len(s)), sep)

\* the fields joined by sep
RECURSIVE JoinWith(_, _)
JoinWith(fs, sep) ==
    IF fs = <<>> THEN <<>>
    ELSE IF Len(fs) = 1 THEN fs[1]
    ELSE fs[1] \o <<sep>> \o JoinWith(Tail(fs), sep)

Contains(s, c) == \E i \in 1..Len(s) : s[i] = c

\* net.IPv4(a, b, c, d): the 16-byte form of an IPv4 address
v4InV6Prefix == <<0, 0, 0, 0, 0, 0, 0, 0, 0, 0, 255, 255>>
IPv4(a, b, c, d) == v4InV6Prefix \o <<a, b, c, d>>

\* ip.To4(): the 4-byte form, or nil (<<>>) when ip is no IPv4 address
To4(ip) ==
    IF Len(ip) = 4 THEN ip
    ELSE IF Len(ip) = 16 /\ SubSeq(ip, 1, 12) = v4InV6Prefix THEN SubSeq(ip, 13, 16)
    ELSE <<>>

\* the eight 16-bit groups of a 16-byte address
Groups(ip) == [i \in 1..8 |-> ip[2 * i - 1] * 256 + ip[2 * i]]

\* the length of the run of zero groups of g that starts at i
RECURSIVE ZeroRun(_, _)
ZeroRun(g, i) == IF i > Len(g) \/ g[i] # 0 THEN 0 ELSE 1 + ZeroRun(g, i + 1)

\* net.IP.String: dotted decimal for an IPv4 address, else the groups in
\* hex with the first longest run of two or more zero groups as "::"
IPString(ip) ==
    IF To4(ip) # <<>>
    THEN LET q == To4(ip)
         IN  Itoa(q[1]) \o <<ChDot>> \o Itoa(q[2]) \o <<ChDot>> \o Itoa(q[3])
                 \o <<ChDot>> \o Itoa(q[4])
    ELSE IF Len(ip) # 16 THEN <<>>
    ELSE LET g    == Groups(ip)
             best == CHOOSE i \in 1..8 :
                        /\ \A j \in 1..8 : ZeroRun(g, j) <= ZeroRun(g, i)
                        /\ \A j \in 1..(i - 1) : ZeroRun(g, j) < ZeroRun(g, i)
             run  == ZeroRun(g, best)
             hex(a, b) == JoinWith([i \in 1..(b - a + 1) |-> HexStr(g[a + i - 1])],
                                   ChColon)
         IN  IF run < 2 THEN hex(1, 8)
             ELSE hex(1, best - 1) \o <<ChColon, ChColon>> \o hex(best + run, 8)

\* net.JoinHostPort
JoinHostPort(host, port) ==
    IF Contains(host, ChColon) \/ Contains(host, ChPercent)
    THEN <<ChLBracket>> \o host \o <<ChRBracket, ChColon>> \o port
    ELSE host \o <<ChColon>> \o port

\* net.SplitHostPort with its error dropped: host and port are empty when
\* hostport has no port, a misplaced bracket or too many colons
SplitHostPort(hostport) ==
    LET bad == [host |-> <<>>, port |-> <<>>]
        n   == Len(hostport)
    IN  IF ~Contains(hostport, ChColon) THEN bad
        ELSE
          LET k == CHOOSE i \in 1..n :
                       hostport[i] = ChColon /\ \A j \in (i + 1)..n : hostport[j] # ChColon
              port == SubSeq(hostport, k + 1, n)
          IN  IF hostport[1] = ChLBracket
              THEN IF k >= 3 /\ hostport[k - 1] = ChRBracket
                      /\ \A j \in 2..(k - 2) :
                            hostport[j] # ChLBracket /\ hostport[j] # ChRBracket
                   THEN [host |-> SubSeq(hostport, 2, k - 2), port |-> port]
                   ELSE bad
              ELSE LET host == SubSeq(hostport, 1, k - 1)
                   IN  IF Contains(host, ChColon) \/ Contains(host, ChLBracket)
                          \/ Contains(host, ChRBracket)
                       THEN bad
                       ELSE [host |-> host, port |-> port]

\* a decimal field of a dotted address: 1 to 3 digits, no leading zero, <= 255
IsV4Field(f) ==
    /\ Len(f) >= 1 /\ Len(f) <= 3
    /\ \A i \in 1..Len(f) : IsDigit(f[i])
    /\ (Len(f) > 1 => f[1] # ChZero)
    /\ DigitsVal(f) <= 255

\* a hex group of an IPv6 address: 1 to 4 hex digits
IsV6Field(f) == Len(f) >= 1 /\ Len(f) <= 4 /\ \A i \in 1..Len(f) : IsHexDigit(f[i])

\* the bytes of a sequence of 16-bit groups
RECURSIVE GroupBytes(_)
GroupBytes(gs) ==
    IF gs = <<>> THEN <<>>
    ELSE <<gs[1] \div 256, gs[1] % 256>> \o GroupBytes(Tail(gs))

\* the hex groups of one side of an IPv6 text (the empty text has none)
V6Side(s) == IF s = <<>> THEN <<>> ELSE SplitOn(s, ChColon)

\* the place of the first "::" in s, 0 when there is none
EllipsisAt(s) ==
    IF \E i \in 1..(Len(s) - 1) : s[i] = ChColon /\ s[i + 1] = ChColon
    THEN CHOOSE i \in 1..(Len(s) - 1) :
            /\ s[i] = ChColon /\ s[i + 1] = ChColon
            /\ \A j \in 1..(i - 1) : ~(s[j] = ChColon /\ s[j + 1] = ChColon)
    ELSE 0

\* net.ParseIP: the 16-byte address s spells (an IPv4 address in its
\* 16-byte form), or nil (<<>>) when s is no address.  The IPv6 forms are
\* hex groups with at most one "::"; an embedded dotted quad and a zone
\* are not addresses here.
ParseIP(s) ==
    IF Contains(s, ChColon)
    THEN LET e == EllipsisAt(s)
         IN  IF e = 0
             THEN LET fs == SplitOn(s, ChColon)
                  IN  IF Len(fs) = 8 /\ \A i \in 1..8 : IsV6Field(fs[i])
                      THEN GroupBytes([i \in 1..8 |-> HexDigitsVal(fs[i])])
                      ELSE <<>>
             ELSE LET l == V6Side(SubSeq(s, 1, e - 1))
                      r == V6Side(SubSeq(s, e + 2, Len(s)))
                  IN  IF /\ Len(l) + Len(r) <= 7
                         /\ \A i \in 1..Len(l) : IsV6Field(l[i])
                         /\ \A i \in 1..Len(r) : IsV6Field(r[i])
                      THEN GroupBytes([i \in 1..Len(l) |-> HexDigitsVal(l[i])]
                                      \o [i \in 1..(8 - Len(l) - Len(r)) |-> 0]
                                      \o [i \in 1..Len(r) |-> HexDigitsVal(r[i])])
                      ELSE <<>>
    ELSE IF Contains(s, ChDot)
    THEN LET fs == SplitOn(s, ChDot)
         IN  IF Len(fs) = 4 /\ \A i \in 1..4 : IsV4Field(fs[i])
             THEN IPv4(DigitsVal(fs[1]), DigitsVal(fs[2]),
                       DigitsVal(fs[3]), DigitsVal(fs[4]))
             ELSE <<>>
    ELSE <<>>

\* (*net.TCPAddr).String(): ta is [IP, Port, Zone]
TCPAddrString(ta) ==
    LET ip == IPString(ta.IP)
    IN  IF ta.Zone # <<>>
        THEN JoinHostPort(ip \o <<ChPercent>> \o ta.Zone, Itoa(ta.Port))
        ELSE JoinHostPort(ip, Itoa(ta.Port))

\* Address.String(): the host part handed to the Dialer
AddressString(a) ==
    IF a.Atyp = ATYP_DOMAINNAME THEN a.DomainName ELSE IPString(a.IPAddr)

(***************************************************************************)
(* The method negotiation and the reply builder.                           *)
(***************************************************************************)
\* the size of authConn's buffer
AuthBufLen == 255

\* errors.New("Client did not list NO_AUTH_REQUIRED as acceptable.")
ErrNoAuth == [kind |-> "NoAuthListed", v |-> 0]

\* authConn(conn): conn is read through r and written through w.  buf is
\* 255 zero bytes; the first Read fills buf[:2], the second buf[:nmethods],
\* and the loop looks at every byte of buf.
authConn(r, w) ==
    LET buf0 == Zeros(AuthBufLen)
        r1   == Read(r, SubSeq(buf0, 1, 2))
        buf1 == r1.buf \o SubSeq(buf0, 3, AuthBufLen)
    IN  IF r1.err # NoErr THEN [err |-> r1.err, r |-> r1.r, w |-> w]
        ELSE IF buf1[1] # VER THEN [err |-> BadVer, r |-> r1.r, w |-> w]
        ELSE
          LET nmethods == buf1[2]
              r2   == Read(r1.r, SubSeq(buf1, 1, nmethods))
              buf2 == r2.buf \o SubSeq(buf1, nmethods + 1, AuthBufLen)
          IN  IF r2.err # NoErr THEN [err |-> r2.err, r |-> r2.r, w |-> w]
              ELSE IF \E i \in 1..AuthBufLen : buf2[i] = NO_AUTH_REQUIRED
              THEN LET wres == Write(w, <<VER, NO_AUTH_REQUIRED>>)
                   IN  [err |-> wres.err, r |-> r2.r, w |-> wres.w]
              ELSE LET wres == Write(w, <<VER, NO_ACCEPTABLE_METHODS>>)
                   IN  [err |-> ErrNoAuth, r |-> r2.r, w |-> wres.w]

\* makeReply that reports every failure as a general server failure
makeReplyGeneralFailure(addrStr, err) ==
    IF err # NoErr THEN [ZeroMsg EXCEPT !.Code = REP_GENERAL_SERVER_FAILURE]
    ELSE [Code |-> REP_SUCCESS, Addr |-> ZeroAddress, Port |-> 0]

\* makeReply(conn, err): addrStr is conn.LocalAddr().String(), not looked
\* at when err is non-nil
makeReply(addrStr, err) ==
    IF err # NoErr THEN [ZeroMsg EXCEPT !.Code = ReplyError(err)]
    ELSE
      LET hp   == SplitHostPort(addrStr)
          port == Atoi(hp.port)
          ip   == ParseIP(hp.host)
          rep  == [Code |-> REP_SUCCESS,
                   Addr |-> [ZeroAddress EXCEPT !.IPAddr = ip],
                   Port |-> port % 65536]
      IN  IF ip = <<>>
          THEN [rep EXCEPT !.Addr = [ZeroAddress EXCEPT !.Atyp = ATYP_DOMAINNAME,
                                                        !.DomainName = hp.host]]
          ELSE IF Len(ip) = 4
          THEN [rep EXCEPT !.Addr.Atyp = ATYP_IPV4]
          ELSE [rep EXCEPT !.Addr.Atyp = ATYP_IPV6]

(***************************************************************************)
(* State.  The first group is the state of one use of the codec and of the *)
(* reply mapper on inputs drawn from bounded sets (SpecCodec).             *)
(***************************************************************************)
VARIABLES
    mode,     \* which function is exercised: "msg", "addr" or "reply"
    phase,    \* "init", then "encoded", "decoded" / "addrDecoded" / "mapped"
    msg,      \* the Msg handed to WriteTo
    wr,       \* the writer WriteTo writes to
    enc,      \* what Msg.WriteTo returned: [n, err]
    raw,      \* the bytes handed to Address.ReadFrom
    dec,      \* what ReadFrom returned: [n, err, m, r]
    errIn,    \* the error handed to ReplyError
    rep       \* the byte ReplyError returned (-1 before the call)

codecVars == <<mode, phase, msg, wr, enc, raw, dec, errIn, rep>>

(***************************************************************************)
(* The second group is the state of one connection handled by handleConn   *)
(* (Spec): the handler, the goroutine doCopy starts, the two connections   *)
(* and the two peers.                                                      *)
(***************************************************************************)
VARIABLES
    pc,        \* where handleConn is: "auth", "readReq", "switch", "reply",
               \* "doCopy", "copy", "recv", "closeConn", "closeSocks", "done"
    pcG,       \* the goroutine of doCopy: "none", "copy", "send", "exit"
    cin,       \* conn as a reader: the byte stream from the client
    cout,      \* conn as a writer: the byte stream to the client
    client,    \* the client: "open", "shut" (sends no more), "gone"
    csent,     \* payload bytes the client sent after its opening bytes
    authErr,   \* what authConn returned
    req,       \* the request as decoded by req.ReadFrom
    reqErr,    \* what req.ReadFrom returned
    dials,     \* the calls of s.Dial: the "host:port" strings
    dialErr,   \* the error s.Dial returned
    socks,     \* socksConn: "none" (nil) or "open"
    laddr,     \* socksConn.LocalAddr().String()
    replies,   \* the Msgs handed to WriteTo(conn), in order
    bin,       \* socksConn as a reader: the byte stream from the backend
    bout,      \* socksConn as a writer: the byte stream to the backend
    backend,   \* the backend peer: "none", "open", "shut", "gone"
    bsent,     \* payload bytes the backend sent
    c2s,       \* io.Copy(b, a), client to backend: "idle", "read", "write", "done"
    s2c,       \* io.Copy(a, b), backend to client: the same
    c2sBuf,    \* the bytes io.Copy(b, a) read and has not yet written
    s2cBuf,    \* the bytes io.Copy(a, b) read and has not yet written
    connClosed,  \* conn.Close() was called
    socksClosed  \* socksConn.Close() was called

connVars == <<pc, pcG, cin, cout, client, csent, authErr, req, reqErr, dials,
              dialErr, socks, laddr, replies, bin, bout, backend, bsent,
              c2s, s2c, c2sBuf, s2cBuf, connClosed, socksClosed>>

vars == <<codecVars, connVars>>

\* the connection's variables before anything happened, on the opening
\* bytes data read seg bytes at a time
ConnStart(data, seg) ==
    /\ pc = "auth" /\ pcG = "none"
    /\ cin = [data |-> data, pos |-> 0, eof |-> FALSE, seg |-> seg]
    /\ cout = NewWriter(0, TRUE)
    /\ client = "open" /\ csent = 0
    /\ authErr = NoErr
    /\ req = ZeroMsg /\ reqErr = NoErr
    /\ dials = <<>> /\ dialErr = NoErr /\ socks = "none" /\ laddr = <<>>
    /\ replies = <<>>
    /\ bin = [data |-> <<>>, pos |-> 0, eof |-> FALSE, seg |-> 0]
    /\ bout = NewWriter(0, TRUE)
    /\ backend = "none" /\ bsent = 0
    /\ c2s = "idle" /\ s2c = "idle" /\ c2sBuf = <<>> /\ s2cBuf = <<>>
    /\ connClosed = FALSE /\ socksClosed = FALSE

\* the codec's variables when no codec call is exercised
CodecIdle ==
    /\ mode = "conn" /\ phase = "init"
    /\ msg = ZeroMsg /\ wr = NewWriter(0, FALSE)
    /\ enc = [n |-> 0, err |-> NoErr]
    /\ raw = <<>>
    /\ dec = [n |-> 0, err |-> NoErr, m |-> ZeroMsg, r |-> NewReader(<<>>)]
    /\ errIn = NoErr /\ rep = -1

\* a name of k bytes (lower-case letters)
Name(k) == [i \in 1..k |-> 97 + (i % 26)]

IPv4Addrs == {<<127, 0, 0, 1>>, <<10, 0, 0, 5>>, <<0, 0, 0, 0>>}
IPv6Addrs == {[i \in 1..16 |-> IF i = 16 THEN 1 ELSE 0],
              [i \in 1..16 |-> 16 * i + 1]}
NameLens == (0..MaxShortName) \cup {254, 255, 256, 257}
Codes == {0, 1, 2, 7, 255}
Ports == {0, 80, 54321, 65535}

\* a Msg is valid when exactly the variant its tag names is populated
ValidAddrs ==
    {[Atyp |-> ATYP_IPV4, IPAddr |-> ip, DomainName |-> <<>>] : ip \in IPv4Addrs}
    \cup {[Atyp |-> ATYP_IPV6, IPAddr |-> ip, DomainName |-> <<>>] : ip \in IPv6Addrs}
    \cup {[Atyp |-> ATYP_DOMAINNAME, IPAddr |-> <<>>, DomainName |-> Name(k)] :
             k \in {l \in NameLens : l <= 255}}
\* the others: an over-long name, the zero Address, unknown tags
OtherAddrs ==
    {[Atyp |-> ATYP_DOMAINNAME, IPAddr |-> <<>>, DomainName |-> Name(k)] :
        k \in {l \in NameLens : l > 255}}
    \cup {ZeroAddress,
          [Atyp |-> 2, IPAddr |-> <<10, 0, 0, 5>>, DomainName |-> <<>>],
          [Atyp |-> 255, IPAddr |-> <<>>, DomainName |-> Name(1)]}
ValidMsg(m) == m.Addr \in ValidAddrs /\ m.Code \in 0..255 /\ m.Port \in 0..65535
Msgs == [Code : Codes, Addr : ValidAddrs \cup OtherAddrs, Port : Ports]

\* the writers: never failing, or failing at the k-th call, for good or once
Writers ==
    {NewWriter(0, FALSE)}
    \cup {NewWriter(k, st) : k \in 1..MaxFailAt, st \in BOOLEAN}

\* byte strings handed to Address.ReadFrom: every tag of TagBytes with a
\* payload, and truncated inputs
TagBytes == {0, 1, 2, 3, 4, 5, 127, 255}
RawAddrs ==
    {<<t>> \o pl : t \in TagBytes,
                   pl \in {<<>>, <<1, 97>>, <<10, 0, 0, 5>>, <<2, 97, 98, 0, 80>>,
                           [i \in 1..18 |-> i]}}
    \cup {<<>>}

\* the errors handed to ReplyError
ErrorsIn ==
    {NoErr, BadVer, BadRsv, BadAtyp, BadStr, EOF, WriteErr(1), Opaque(1), Opaque(2)}
    \cup {ReplyCode(c) : c \in 0..255}

NoResult == [n |-> 0, err |-> NoErr]
NoDecode == [n |-> 0, err |-> NoErr, m |-> ZeroMsg, r |-> NewReader(<<>>)]

InitCodec ==
    /\ ConnStart(<<>>, 0)
    /\ phase = "init"
    /\ enc = NoResult
    /\ dec = NoDecode
    /\ rep = -1
    /\ \/ /\ mode = "msg"
          /\ msg \in Msgs
          /\ wr \in Writers
          /\ raw = <<>>
          /\ errIn = NoErr
       \/ /\ mode = "addr"
          /\ msg = ZeroMsg
          /\ wr = NewWriter(0, FALSE)
          /\ raw \in RawAddrs
          /\ errIn = NoErr
       \/ /\ mode = "reply"
          /\ msg = ZeroMsg
          /\ wr = NewWriter(0, FALSE)
          /\ raw = <<>>
          /\ errIn \in ErrorsIn

\* msg.WriteTo(wr)
Encode ==
    /\ mode = "msg" /\ phase = "init"
    /\ LET s == MsgWriteTo(msg, wr)
       IN  /\ wr' = s.w
           /\ enc' = [n |-> s.n, err |-> s.err]
    /\ phase' = "encoded"
    /\ UNCHANGED <<mode, msg, raw, dec, errIn, rep>>
    /\ UNCHANGED connVars

\* (&Msg{}).ReadFrom(r), r a reader of the bytes the writer accepted
Decode ==
    /\ mode = "msg" /\ phase = "encoded"
    /\ dec' = MsgReadFrom(ZeroMsg, NewReader(wr.out))
    /\ phase' = "decoded"
    /\ UNCHANGED <<mode, msg, wr, enc, raw, errIn, rep>>
    /\ UNCHANGED connVars

\* (&Address{}).ReadFrom(r), r a reader of raw
DecodeAddr ==
    /\ mode = "addr" /\ phase = "init"
    /\ LET d == AddressReadFrom(ZeroAddress, NewReader(raw))
       IN  dec' = [n |-> d.n, err |-> d.err,
                   m |-> [ZeroMsg EXCEPT !.Addr = d.a], r |-> d.r]
    /\ phase' = "addrDecoded"
    /\ UNCHANGED <<mode, msg, wr, enc, raw, errIn, rep>>
    /\ UNCHANGED connVars

\* ReplyError(errIn)
MapReply ==
    /\ mode = "reply" /\ phase = "init"
    /\ rep' = ReplyError(errIn)
    /\ phase' = "mapped"
    /\ UNCHANGED <<mode, msg, wr, enc, raw, dec, errIn>>
    /\ UNCHANGED connVars

NextCodec == Encode \/ Decode \/ DecodeAddr \/ MapReply

SpecCodec == InitCodec /\ [][NextCodec]_vars


(***************************************************************************)
(* One connection (Spec).  The opening bytes of the client, the segment    *)
(* size of its stream, the outcome of s.Dial and the moves of the two      *)
(* peers are drawn from the sets below.                                    *)
(***************************************************************************)
\* greetings: VER, NMETHODS, METHODS
AllNonZeroMethods == <<VER, 255>> \o [i \in 1..255 |-> 1 + (i % 2)]
Greetings ==
    {<<VER, 1, 0>>, <<VER, 3, 1, 0, 2>>, <<VER, 2, 1, 2>>, <<VER, 1, 2>>,
     <<VER, 0>>, <<4, 1, 0>>, <<VER, 2, 1>>, AllNonZeroMethods}

\* requests: VER, CMD, RSV, ATYP, ADDR, PORT
ConnectV4 == <<VER, REQ_CONNECT, 0, ATYP_IPV4, 127, 0, 0, 1, 0, 80>>
Requests ==
    {ConnectV4,
     <<VER, REQ_CONNECT, 0, ATYP_DOMAINNAME, 3, 97, 98, 99, 1, 187>>,
     <<VER, REQ_CONNECT, 0, ATYP_IPV6>> \o [i \in 1..16 |-> IF i = 16 THEN 1 ELSE 0]
         \o <<0, 80>>,
     <<VER, REQ_BIND, 0, ATYP_IPV4, 127, 0, 0, 1, 0, 80>>,
     <<VER, REQ_UDP_ASSOCIATE, 0, ATYP_DOMAINNAME, 1, 97, 0, 53>>,
     <<VER, 9, 0, ATYP_IPV4, 10, 0, 0, 5, 0, 80>>,
     <<VER, 0, 0, ATYP_IPV4, 10, 0, 0, 5, 0, 80>>,
     <<4, REQ_CONNECT, 0, ATYP_IPV4, 127, 0, 0, 1, 0, 80>>,
     <<VER, REQ_CONNECT, 1, ATYP_IPV4, 127, 0, 0, 1, 0, 80>>,
     <<VER, REQ_CONNECT, 0, 2, 127, 0, 0, 1, 0, 80>>,
     <<VER, REQ_CONNECT, 0, ATYP_IPV4, 127>>,
     <<>>}

ClientInputs ==
    {g \o ConnectV4 : g \in Greetings} \cup {<<VER, 1, 0>> \o q : q \in Requests}

\* one Read hands out all the bytes at hand, or one byte
Segs == {0, 1}

\* the local endpoints of an established backend connection
TCPAddrs ==
    {[IP |-> <<10, 0, 0, 5>>, Port |-> 54321, Zone |-> <<>>],
     [IP |-> IPv4(192, 168, 1, 20), Port |-> 80, Zone |-> <<>>],
     [IP |-> [i \in 1..16 |-> IF i = 16 THEN 1 ELSE 0], Port |-> 1080, Zone |-> <<>>],
     [IP |-> <<254, 128, 0, 0, 0, 0, 0, 0, 2, 0, 0, 255, 254, 0, 0, 1>>,
      Port |-> 65535, Zone |-> <<101, 48>>]}
\* a connection that is no TCP connection ("pipe")
PipeAddr == <<112, 105, 112, 101>>
LocalAddrs == {TCPAddrString(ta) : ta \in TCPAddrs} \cup {PipeAddr}

\* the errors s.Dial returns
DialErrors == {Opaque(1)} \cup {ReplyCode(c) : c \in 0..8}

Init ==
    /\ CodecIdle
    /\ \E data \in ClientInputs, seg \in Segs : ConnStart(data, seg)

\* err := authConn(conn); if err != nil { return }
HandleAuth ==
    /\ pc = "auth"
    /\ LET a == authConn(cin, cout)
       IN  /\ a.err # Block
           /\ cin' = a.r
           /\ cout' = a.w
           /\ authErr' = a.err
           /\ pc' = IF a.err # NoErr THEN "done" ELSE "readReq"
    /\ UNCHANGED <<pcG, client, csent, req, reqErr, dials, dialErr, socks, laddr,
                   replies, bin, bout, backend, bsent, c2s, s2c, c2sBuf, s2cBuf,
                   connClosed, socksClosed>>
    /\ UNCHANGED codecVars

\* the request is read and handleConn goes on to the switch whatever
\* ReadFrom returned
HandleReadRequestIgnoresError ==
    /\ pc = "readReq"
    /\ LET d == MsgReadFrom(ZeroMsg, cin)
       IN  /\ d.err # Block
           /\ cin' = d.r
           /\ req' = d.m
           /\ reqErr' = d.err
           /\ pc' = "switch"
    /\ UNCHANGED <<pcG, cout, client, csent, authErr, dials, dialErr, socks, laddr,
                   replies, bin, bout, backend, bsent, c2s, s2c, c2sBuf, s2cBuf,
                   connClosed, socksClosed>>
    /\ UNCHANGED codecVars

\* req := &Msg{}; _, err = req.ReadFrom(conn); if err != nil { return }
HandleReadRequest ==
    /\ pc = "readReq"
    /\ LET d == MsgReadFrom(ZeroMsg, cin)
       IN  /\ d.err # Block
           /\ cin' = d.r
           /\ req' = d.m
           /\ reqErr' = d.err
           /\ pc' = IF d.err # NoErr THEN "done" ELSE "switch"
    /\ UNCHANGED <<pcG, cout, client, csent, authErr, dials, dialErr, socks, laddr,
                   replies, bin, bout, backend, bsent, c2s, s2c, c2sBuf, s2cBuf,
                   connClosed, socksClosed>>
    /\ UNCHANGED codecVars

\* s.Dial is called for every command
HandleDialAnyCommand ==
    /\ pc = "switch"
    /\ dials' = Append(dials, JoinHostPort(AddressString(req.Addr), Itoa(req.Port)))
    /\ \/ \E la \in LocalAddrs :
             /\ dialErr' = NoErr /\ socks' = "open" /\ laddr' = la
             /\ backend' = "open"
       \/ \E e \in DialErrors :
             /\ dialErr' = e /\ socks' = "none" /\ laddr' = <<>>
             /\ backend' = "none"
    /\ pc' = "reply"
    /\ UNCHANGED <<pcG, cin, cout, client, csent, authErr, req, reqErr, replies,
                   bin, bout, bsent, c2s, s2c, c2sBuf, s2cBuf, connClosed,
                   socksClosed>>
    /\ UNCHANGED codecVars

\* case REQ_CONNECT: socksConn, err := s.Dial("tcp", net.JoinHostPort(...))
\* the backend answers with a connection or with an error
HandleDial ==
    /\ pc = "switch" /\ req.Code = REQ_CONNECT
    /\ dials' = Append(dials, JoinHostPort(AddressString(req.Addr), Itoa(req.Port)))
    /\ \/ \E la \in LocalAddrs :
             /\ dialErr' = NoErr /\ socks' = "open" /\ laddr' = la
             /\ backend' = "open"
       \/ \E e \in DialErrors :
             /\ dialErr' = e /\ socks' = "none" /\ laddr' = <<>>
             /\ backend' = "none"
    /\ pc' = "reply"
    /\ UNCHANGED <<pcG, cin, cout, client, csent, authErr, req, reqErr, replies,
                   bin, bout, bsent, c2s, s2c, c2sBuf, s2cBuf, connClosed,
                   socksClosed>>
    /\ UNCHANGED codecVars

\* rep := makeReply(socksConn, err); rep.WriteTo(conn);
\* if err != nil { return }
HandleConnectReply ==
    /\ pc = "reply"
    /\ LET rp == makeReply(laddr, dialErr)
       IN  /\ cout' = MsgWriteTo(rp, cout).w
           /\ replies' = Append(replies, rp)
    /\ pc' = IF dialErr # NoErr THEN "done" ELSE "doCopy"
    /\ UNCHANGED <<pcG, cin, client, csent, authErr, req, reqErr, dials, dialErr,
                   socks, laddr, bin, bout, backend, bsent, c2s, s2c, c2sBuf,
                   s2cBuf, connClosed, socksClosed>>
    /\ UNCHANGED codecVars

\* default: (&Msg{Code: byte(REP_CMD_NOT_SUPPORTED)}).WriteTo(conn)
HandleUnsupported ==
    /\ pc = "switch" /\ req.Code # REQ_CONNECT
    /\ LET rp == [ZeroMsg EXCEPT !.Code = REP_CMD_NOT_SUPPORTED]
       IN  /\ cout' = MsgWriteTo(rp, cout).w
           /\ replies' = Append(replies, rp)
    /\ pc' = "done"
    /\ UNCHANGED <<pcG, cin, client, csent, authErr, req, reqErr, dials, dialErr,
                   socks, laddr, bin, bout, backend, bsent, c2s, s2c, c2sBuf,
                   s2cBuf, connClosed, socksClosed>>
    /\ UNCHANGED codecVars

(***************************************************************************)
(* doCopy(conn, socksConn): a is conn, b is socksConn.  The goroutine runs *)
(* io.Copy(a, b) (backend to client) and then sends on the unbuffered      *)
(* channel done; the caller runs io.Copy(b, a) (client to backend) and     *)
(* then receives from done.  io.Copy reads from its source until the end   *)
(* of the stream or an error and writes what it read to its destination,   *)
(* stopping at a write error.                                              *)
(***************************************************************************)
\* the slice io.Copy reads into: room for all the bytes at hand
CopyBuf(r) == Zeros(IF Len(r.data) > r.pos THEN Len(r.data) - r.pos ELSE 1)

\* doCopy: done := make(chan byte); go func() {...}(); the caller goes on
\* to io.Copy(b, a)
DoCopyStart ==
    /\ pc = "doCopy"
    /\ pc' = "copy" /\ pcG' = "copy"
    /\ c2s' = "read" /\ s2c' = "read"
    /\ UNCHANGED <<cin, cout, client, csent, authErr, req, reqErr, dials, dialErr,
                   socks, laddr, replies, bin, bout, backend, bsent, c2sBuf,
                   s2cBuf, connClosed, socksClosed>>
    /\ UNCHANGED codecVars

\* io.Copy(b, a) that reads again when Read returns an error
CopyMainReadRetriesOnError ==
    /\ pc = "copy" /\ c2s = "read"
    /\ LET t == Read(cin, CopyBuf(cin))
       IN  /\ t.err = NoErr
           /\ cin' = t.r
           /\ c2s' = "write" /\ c2sBuf' = SubSeq(t.buf, 1, t.n)
    /\ UNCHANGED <<pc, pcG, cout, client, csent, authErr, req, reqErr, dials, dialErr,
                   socks, laddr, replies, bin, bout, backend, bsent, s2c, s2cBuf,
                   connClosed, socksClosed>>
    /\ UNCHANGED codecVars

\* io.Copy(b, a) in the caller: a Read from conn
CopyMainRead ==
    /\ pc = "copy" /\ c2s = "read"
    /\ LET t == Read(cin, CopyBuf(cin))
       IN  /\ t.err # Block
           /\ cin' = t.r
           /\ IF t.err # NoErr
              THEN c2s' = "done" /\ pc' = "recv" /\ c2sBuf' = <<>>
              ELSE c2s' = "write" /\ pc' = pc /\ c2sBuf' = SubSeq(t.buf, 1, t.n)
    /\ UNCHANGED <<pcG, cout, client, csent, authErr, req, reqErr, dials, dialErr,
                   socks, laddr, replies, bin, bout, backend, bsent, s2c, s2cBuf,
                   connClosed, socksClosed>>
    /\ UNCHANGED codecVars

\* a write error towards the backend that also ends the copy towards the
\* client
CopyMainWriteStopsBoth ==
    /\ pc = "copy" /\ c2s = "write"
    /\ LET t == Write(bout, c2sBuf)
       IN  /\ bout' = t.w
           /\ IF t.err # NoErr
              THEN /\ c2s' = "done" /\ pc' = "recv"
                   /\ s2c' = "done" /\ pcG' = "send" /\ s2cBuf' = <<>>
              ELSE /\ c2s' = "read" /\ pc' = pc
                   /\ UNCHANGED <<s2c, pcG, s2cBuf>>
    /\ c2sBuf' = <<>>
    /\ UNCHANGED <<cin, cout, client, csent, authErr, req, reqErr, dials,
                   dialErr, socks, laddr, replies, bin, backend, bsent,
                   connClosed, socksClosed>>
    /\ UNCHANGED codecVars

\* io.Copy(b, a) in the caller: the Write to socksConn of what was read
CopyMainWrite ==
    /\ pc = "copy" /\ c2s = "write"
    /\ LET t == Write(bout, c2sBuf)
       IN  /\ bout' = t.w
           /\ IF t.err # NoErr
              THEN c2s' = "done" /\ pc' = "recv"
              ELSE c2s' = "read" /\ pc' = pc
    /\ c2sBuf' = <<>>
    /\ UNCHANGED <<pcG, cin, cout, client, csent, authErr, req, reqErr, dials,
                   dialErr, socks, laddr, replies, bin, backend, bsent, s2c,
                   s2cBuf, connClosed, socksClosed>>
    /\ UNCHANGED codecVars

\* the goroutine ends after its io.Copy without sending on done
CopyGoReadNoSignal ==
    /\ pcG = "copy" /\ s2c = "read"
    /\ LET t == Read(bin, CopyBuf(bin))
       IN  /\ t.err # Block
           /\ bin' = t.r
           /\ IF t.err # NoErr
              THEN s2c' = "done" /\ pcG' = "exit" /\ s2cBuf' = <<>>
              ELSE s2c' = "write" /\ pcG' = pcG /\ s2cBuf' = SubSeq(t.buf, 1, t.n)
    /\ UNCHANGED <<pc, cin, cout, client, csent, authErr, req, reqErr, dials,
                   dialErr, socks, laddr, replies, bout, backend, bsent, c2s,
                   c2sBuf, connClosed, socksClosed>>
    /\ UNCHANGED codecVars

\* io.Copy(a, b) in the goroutine: a Read from socksConn
CopyGoRead ==
    /\ pcG = "copy" /\ s2c = "read"
    /\ LET t == Read(bin, CopyBuf(bin))
       IN  /\ t.err # Block
           /\ bin' = t.r
           /\ IF t.err # NoErr
              THEN s2c' = "done" /\ pcG' = "send" /\ s2cBuf' = <<>>
              ELSE s2c' = "write" /\ pcG' = pcG /\ s2cBuf' = SubSeq(t.buf, 1, t.n)
    /\ UNCHANGED <<pc, cin, cout, client, csent, authErr, req, reqErr, dials,
                   dialErr, socks, laddr, replies, bout, backend, bsent, c2s,
                   c2sBuf, connClosed, socksClosed>>
    /\ UNCHANGED codecVars

\* io.Copy(a, b) in the goroutine: the Write to conn of what was read
CopyGoWrite ==
    /\ pcG = "copy" /\ s2c = "write"
    /\ LET t == Write(cout, s2cBuf)
       IN  /\ cout' = t.w
           /\ IF t.err # NoErr
              THEN s2c' = "done" /\ pcG' = "send"
              ELSE s2c' = "read" /\ pcG' = pcG
    /\ s2cBuf' = <<>>
    /\ UNCHANGED <<pc, cin, client, csent, authErr, req, reqErr, dials, dialErr,
                   socks, laddr, replies, bin, bout, backend, bsent, c2s, c2sBuf,
                   connClosed, socksClosed>>
    /\ UNCHANGED codecVars

\* the caller skips the receive from done
DoCopyJoinNoWait ==
    /\ pc = "recv"
    /\ pc' = "closeConn"
    /\ UNCHANGED <<pcG, cin, cout, client, csent, authErr, req, reqErr, dials,
                   dialErr, socks, laddr, replies, bin, bout, backend, bsent,
                   c2s, s2c, c2sBuf, s2cBuf, connClosed, socksClosed>>
    /\ UNCHANGED codecVars

\* done <- 0 in the goroutine meets <-done in the caller; doCopy returns
DoCopyJoin ==
    /\ pc = "recv" /\ pcG = "send"
    /\ pc' = "closeConn" /\ pcG' = "exit"
    /\ UNCHANGED <<cin, cout, client, csent, authErr, req, reqErr, dials, dialErr,
                   socks, laddr, replies, bin, bout, backend, bsent, c2s, s2c,
                   c2sBuf, s2cBuf, connClosed, socksClosed>>
    /\ UNCHANGED codecVars

\* conn.Close()
HandleCloseConn ==
    /\ pc = "closeConn"
    /\ connClosed' = TRUE
    /\ pc' = "closeSocks"
    /\ UNCHANGED <<pcG, cin, cout, client, csent, authErr, req, reqErr, dials,
                   dialErr, socks, laddr, replies, bin, bout, backend, bsent,
                   c2s, s2c, c2sBuf, s2cBuf, socksClosed>>
    /\ UNCHANGED codecVars

\* socksConn.Close(); handleConn returns
HandleCloseSocks ==
    /\ pc = "closeSocks"
    /\ socksClosed' = TRUE
    /\ pc' = "done"
    /\ UNCHANGED <<pcG, cin, cout, client, csent, authErr, req, reqErr, dials,
                   dialErr, socks, laddr, replies, bin, bout, backend, bsent,
                   c2s, s2c, c2sBuf, s2cBuf, connClosed>>
    /\ UNCHANGED codecVars

(***************************************************************************)
(* The peers.  Each may send, stop sending (its stream ends: the server's  *)
(* Read returns EOF once the bytes at hand are read) and go away (also the *)
(* server's writes to it fail from then on).                               *)
(***************************************************************************)
ClientSend ==
    /\ pc # "done" /\ client = "open" /\ csent < MaxClientSends
    /\ cin' = [cin EXCEPT !.data = Append(@, 200 + csent)]
    /\ csent' = csent + 1
    /\ UNCHANGED <<pc, pcG, cout, client, authErr, req, reqErr, dials, dialErr,
                   socks, laddr, replies, bin, bout, backend, bsent, c2s, s2c,
                   c2sBuf, s2cBuf, connClosed, socksClosed>>
    /\ UNCHANGED codecVars

ClientShut ==
    /\ pc # "done" /\ client = "open"
    /\ client' = "shut"
    /\ cin' = [cin EXCEPT !.eof = TRUE]
    /\ UNCHANGED <<pc, pcG, cout, csent, authErr, req, reqErr, dials, dialErr,
                   socks, laddr, replies, bin, bout, backend, bsent, c2s, s2c,
                   c2sBuf, s2cBuf, connClosed, socksClosed>>
    /\ UNCHANGED codecVars

ClientGone ==
    /\ pc # "done" /\ client \in {"open", "shut"}
    /\ client' = "gone"
    /\ cin' = [cin EXCEPT !.eof = TRUE]
    /\ cout' = [cout EXCEPT !.failAt = Len(cout.calls) + 1]
    /\ UNCHANGED <<pc, pcG, csent, authErr, req, reqErr, dials, dialErr, socks,
                   laddr, replies, bin, bout, backend, bsent, c2s, s2c, c2sBuf,
                   s2cBuf, connClosed, socksClosed>>
    /\ UNCHANGED codecVars

BackendSend ==
    /\ pc # "done" /\ backend = "open" /\ bsent < MaxBackendSends
    /\ bin' = [bin EXCEPT !.data = Append(@, 100 + bsent)]
    /\ bsent' = bsent + 1
    /\ UNCHANGED <<pc, pcG, cin, cout, client, csent, authErr, req, reqErr, dials,
                   dialErr, socks, laddr, replies, bout, backend, c2s, s2c,
                   c2sBuf, s2cBuf, connClosed, socksClosed>>
    /\ UNCHANGED codecVars

BackendShut ==
    /\ pc # "done" /\ backend = "open"
    /\ backend' = "shut"
    /\ bin' = [bin EXCEPT !.eof = TRUE]
    /\ UNCHANGED <<pc, pcG, cin, cout, client, csent, authErr, req, reqErr, dials,
                   dialErr, socks, laddr, replies, bout, bsent, c2s, s2c, c2sBuf,
                   s2cBuf, connClosed, socksClosed>>
    /\ UNCHANGED codecVars

BackendGone ==
    /\ pc # "done" /\ backend \in {"open", "shut"}
    /\ backend' = "gone"
    /\ bin' = [bin EXCEPT !.eof = TRUE]
    /\ bout' = [bout EXCEPT !.failAt = Len(bout.calls) + 1]
    /\ UNCHANGED <<pc, pcG, cin, cout, client, csent, authErr, req, reqErr, dials,
                   dialErr, socks, laddr, replies, bsent, c2s, s2c, c2sBuf,
                   s2cBuf, connClosed, socksClosed>>
    /\ UNCHANGED codecVars

Next ==
    \/ HandleAuth \/ HandleReadRequest \/ HandleDial \/ HandleConnectReply
    \/ HandleUnsupported
    \/ DoCopyStart \/ CopyMainRead \/ CopyMainWrite \/ CopyGoRead \/ CopyGoWrite
    \/ DoCopyJoin \/ HandleCloseConn \/ HandleCloseSocks
    \/ ClientSend \/ ClientShut \/ ClientGone
    \/ BackendSend \/ BackendShut \/ BackendGone

Spec == Init /\ [][Next]_vars

(***************************************************************************)
(* Scheduling of the relay.  doCopy runs on the goroutine of handleConn    *)
(* and starts a second one; the Go scheduler lets each of them run when it *)
(* can take a step.  Nothing obliges a peer to send or to close.           *)
(***************************************************************************)
\* the steps of the goroutine running handleConn, from doCopy on
MainRelayNext ==
    \/ DoCopyStart \/ CopyMainRead \/ CopyMainWrite \/ DoCopyJoin
    \/ HandleCloseConn \/ HandleCloseSocks

\* the steps of the goroutine doCopy starts
GoNext == CopyGoRead \/ CopyGoWrite \/ DoCopyJoin

SpecFair == Init /\ [][Next]_vars /\ WF_vars(MainRelayNext) /\ WF_vars(GoNext)

(***************************************************************************)
(* Claims about the codec and the reply mapper, under SpecCodec.           *)
(***************************************************************************)
AllWritesOk == \A i \in 1..Len(wr.calls) : wr.calls[i].ok
FailedCalls == {i \in 1..Len(wr.calls) : ~wr.calls[i].ok}
FirstFailed == CHOOSE i \in FailedCalls : \A j \in FailedCalls : i <= j
KnownAtyps == {ATYP_IPV4, ATYP_DOMAINNAME, ATYP_IPV6}

\* C4: for every valid Msg, WriteTo to a writer that accepts every write
\* followed by ReadFrom on the written bytes gives back an equal Msg, both
\* succeed, and the two byte counts are equal.
C4_RoundTrip ==
    (phase = "decoded" /\ ValidMsg(msg) /\ AllWritesOk)
        => /\ enc.err = NoErr
           /\ dec.err = NoErr
           /\ dec.m = msg
           /\ dec.n = enc.n
           /\ enc.n = Len(wr.out)

\* a 255-byte domain name with a port of two different bytes went round
C4_Witness ==
    /\ phase = "decoded" /\ AllWritesOk
    /\ msg.Addr.Atyp = ATYP_DOMAINNAME /\ Len(msg.Addr.DomainName) = 255
    /\ msg.Port = 54321 /\ msg.Code = 255
    /\ dec.m = msg /\ dec.n = 262

\* C5 (the claim as stated): encoding a 255-byte domain name succeeds, and
\* encoding a domain name of 256 bytes or more fails with BadStr with no
\* byte written to the writer.
C5_NoByteBeforeBadStr ==
    (phase = "encoded" /\ wr.failAt = 0 /\ msg.Addr.Atyp = ATYP_DOMAINNAME)
        => /\ Len(msg.Addr.DomainName) = 255 => enc.err = NoErr
           /\ Len(msg.Addr.DomainName) >= 256
                 => (enc.err = BadStr /\ wr.out = <<>> /\ enc.n = 0)

\* C6 (the claim as stated): once a write to the writer fails, WriteTo
\* makes no further Write call and returns the error of that first failure.
C6_ShortCircuit ==
    (phase = "encoded" /\ FailedCalls # {})
        => /\ Len(wr.calls) = FirstFailed
           /\ enc.err = WriteErr(FirstFailed)

\* C7: decoding an address whose tag byte is none of 1, 3, 4 fails with
\* BadAtyp and reads nothing after the tag byte, in Address.ReadFrom itself
\* and when Msg.ReadFrom reaches it after the 3-byte header.
C7_BadAtypRejected ==
    /\ (phase = "addrDecoded" /\ Len(raw) >= 1 /\ raw[1] \notin KnownAtyps)
          => (dec.err = BadAtyp /\ dec.n = 1 /\ dec.r.pos = 1
              /\ dec.m.Addr.IPAddr = <<>> /\ dec.m.Addr.DomainName = <<>>)
    /\ (phase = "decoded" /\ AllWritesOk /\ msg.Addr.Atyp \notin KnownAtyps)
          => (dec.err = BadAtyp /\ dec.n = 4 /\ dec.r.pos = 4)

\* an unknown tag with bytes behind it was rejected
C7_Witness ==
    /\ phase = "addrDecoded" /\ Len(raw) = 5 /\ raw[1] = 2
    /\ dec.err = BadAtyp /\ dec.r.pos = 1

\* C8: ReplyError maps nil to 0x00, an error that is no ReplyCode to 0x01,
\* and a ReplyCode (the nine defined ones among them) to its own value.
C8_ReplyMapping ==
    phase = "mapped"
        => /\ errIn = NoErr => rep = 0
           /\ (errIn # NoErr /\ errIn.kind # "ReplyCode") => rep = 1
           /\ \A c \in 0..8 : errIn = ReplyCode(c) => rep = c
           /\ errIn.kind = "ReplyCode" => rep = errIn.v

\* a defined reply code other than 0 and 1 was mapped
C8_Witness == phase = "mapped" /\ errIn = ReplyCode(8) /\ rep = 8


(***************************************************************************)
(* Claims about one connection, under Spec.                                *)
(***************************************************************************)
\* every Write call made on conn so far succeeded
ConnWritesOk == \A i \in 1..Len(cout.calls) : cout.calls[i].ok
\* the methods the greeting offers (the client's opening bytes start with
\* a complete greeting)
OfferedMethods == SubSeq(cin.data, 3, 2 + cin.data[2])
\* the bytes written to the client after the 2-byte method reply
AfterMethodReply == Drop(cout.out, 2)

\* C1 (the claim as stated): for a greeting with version 5, authConn writes
\* 05 00 and succeeds if and only if 0x00 is among the offered methods, and
\* otherwise writes 05 FF and fails.
C1_NoAuthIffOffered ==
    (pc # "auth" /\ cin.seg = 0 /\ cin.data[1] = VER
     /\ Len(cout.calls) >= 1 /\ cout.calls[1].ok)
        => IF \E i \in 1..Len(OfferedMethods) : OfferedMethods[i] = NO_AUTH_REQUIRED
           THEN authErr = NoErr /\ Take(cout.out, 2) = <<VER, NO_AUTH_REQUIRED>>
           ELSE authErr # NoErr /\ Take(cout.out, 2) = <<VER, NO_ACCEPTABLE_METHODS>>

\* C2 (the claim as stated): after a successful CONNECT whose backend
\* connection has the IPv4 local endpoint a.b.c.d:p, the reply written to
\* the client is 05 00 00 01 a b c d p_hi p_lo.
C2_IPv4SuccessReply ==
    (pc = "doCopy" /\ ConnWritesOk)
        => \A ta \in TCPAddrs :
              (To4(ta.IP) # <<>> /\ ta.Zone = <<>> /\ laddr = TCPAddrString(ta))
                 => AfterMethodReply
                      = <<VER, REP_SUCCESS, 0, ATYP_IPV4>> \o To4(ta.IP)
                            \o PutUint16(ta.Port)

\* C3 (the claim as stated): for a decoded request whose command is not
\* CONNECT the reply written to the client is 05 07 00 01 00 00 00 00 00 00.
C3_UnsupportedReplyBytes ==
    (pc = "done" /\ Len(replies) = 1 /\ req.Code # REQ_CONNECT /\ ConnWritesOk)
        => AfterMethodReply
             = <<VER, REP_CMD_NOT_SUPPORTED, 0, ATYP_IPV4, 0, 0, 0, 0, 0, 0>>

\* C9 (the claim as stated): when handleConn ends after a reply that is not
\* success, the client connection is closed, and so is the backend
\* connection if one was opened.
C9_ClosedAfterFailure ==
    (pc = "done" /\ Len(replies) = 1 /\ replies[1].Code # REP_SUCCESS)
        => (connClosed /\ (socks = "open" => socksClosed))

\* C10: once handleConn has ended after a relay, conn and socksConn are
\* both closed; and neither is closed while a copy direction is unfinished
\* (doCopy has returned: both io.Copy calls ended and the goroutine is past
\* its send).
C10_ClosedAfterRelay ==
    /\ (pc = "done" /\ c2s # "idle") => (connClosed /\ socksClosed)
    /\ (connClosed \/ socksClosed)
          => (c2s = "done" /\ s2c = "done" /\ pcG = "exit")

\* a relay that carried bytes both ways has ended and both are closed
C10_Witness ==
    /\ pc = "done" /\ connClosed /\ socksClosed
    /\ bout.out # <<>> /\ Len(cout.out) > 2 + 10
    /\ c2s = "done" /\ s2c = "done"


(***************************************************************************)
(* Claims about the relay and the dispatcher, under Spec and SpecFair.     *)
(***************************************************************************)
\* doCopy has been entered and has not returned
RelayRunning == pc \in {"copy", "recv"}

\* C11 (the claim as stated): during the relay, once either side has
\* closed its stream the relay completes and handleConn ends, whatever the
\* other side does.
C11_EndsWhenEitherCloses ==
    (RelayRunning /\ (cin.eof \/ bin.eof)) ~> (pc = "done")

\* C11 (amended): during the relay, once the streams of both sides have
\* ended the relay completes and handleConn ends.
C11_EndsWhenBothClose ==
    (RelayRunning /\ cin.eof /\ bin.eof) ~> (pc = "done" /\ pcG = "exit")

\* both peers stopped sending, the relay ended and handleConn returned
C11_Witness ==
    /\ pc = "done" /\ pcG = "exit" /\ client = "shut" /\ backend = "shut"
    /\ c2s = "done" /\ s2c = "done"


\* the relay was started on this connection
RelayStarted == c2s # "idle" \/ s2c # "idle" \/ pcG # "none"

\* C12: when s.Dial fails, handleConn ends having written exactly one reply,
\* whose code is ReplyError(err) and whose address and port are the zero
\* values (on the wire: VER, the code, RSV, and nothing but zero bytes
\* behind them), having called Dial once, and without starting the relay.
C12_DialFailureReply ==
    dialErr # NoErr
        => /\ Len(dials) = 1
           /\ ~RelayStarted
           /\ pc \in {"reply", "done"}
           /\ pc = "reply" => replies = <<>>
           /\ pc = "done"
                 => /\ Len(replies) = 1
                    /\ replies[1].Code = ReplyError(dialErr)
                    /\ replies[1].Addr = ZeroAddress
                    /\ replies[1].Port = 0
                    /\ ConnWritesOk
                          => AfterMethodReply
                               = <<VER, ReplyError(dialErr), 0>> \o Zeros(3)

\* Dial failed with "connection refused" and the client got reply code 5
C12_Witness ==
    /\ pc = "done" /\ dialErr = ReplyCode(5) /\ Len(dials) = 1
    /\ cout.out = <<VER, NO_AUTH_REQUIRED, VER, 5, 0, 0, 0, 0>>

\* the bytes Msg.WriteTo produces for m on a writer that accepts them
Encoded(m) == MsgWriteTo(m, NewWriter(0, TRUE)).w.out

\* C13 (the claim as stated): the stages of a connection are ordered.  No
\* byte behind the greeting is read before the method reply 05 00 was
\* written; Dial is not called before a request was decoded; the relay
\* does not start before the reply is written to the client; and after a
\* failed stage no later stage runs.
C13_StagesOrdered ==
    /\ pc = "auth" => (cin.pos = 0 /\ req = ZeroMsg /\ reqErr = NoErr)
    /\ pc = "readReq" => cin.pos <= 2 + cin.data[2]
    /\ (pc # "auth" /\ authErr = NoErr)
          => (Len(cout.calls) >= 1
              /\ cout.calls[1] = [p |-> <<VER, NO_AUTH_REQUIRED>>, ok |-> TRUE])
    /\ authErr # NoErr
          => (pc = "done" /\ req = ZeroMsg /\ reqErr = NoErr /\ dials = <<>>
              /\ replies = <<>> /\ ~RelayStarted)
    /\ dials # <<>>
          => (authErr = NoErr /\ reqErr = NoErr /\ req.Code = REQ_CONNECT
              /\ pc \notin {"auth", "readReq"})
    /\ reqErr # NoErr
          => (pc = "done" /\ dials = <<>> /\ replies = <<>> /\ ~RelayStarted)
    /\ dialErr # NoErr => ~RelayStarted
    /\ RelayStarted
          => /\ Len(dials) = 1 /\ Len(replies) = 1
             /\ Take(AfterMethodReply, Len(Encoded(replies[1])))
                   = Encoded(replies[1])

\* C14 (the claim as stated): when handleConn has ended after writing a
\* reply, the relay was started if and only if the code of that reply is
\* 0x00, whatever s.Dial returned.
C14_RelayIffSuccessReply ==
    (pc = "done" /\ Len(replies) = 1)
        => (RelayStarted <=> replies[1].Code = REP_SUCCESS)

\* C15: when Msg.ReadFrom fails on the request, handleConn ends at once:
\* nothing but the method reply was written to the client, Dial was not
\* called and no relay was started.
C15_DecodeFailureEnds ==
    reqErr # NoErr
        => /\ pc = "done"
           /\ cout.out = <<VER, NO_AUTH_REQUIRED>> /\ Len(cout.calls) = 1
           /\ replies = <<>> /\ dials = <<>> /\ socks = "none"
           /\ ~RelayStarted

\* a request with a non-zero reserved byte ended the connection
C15_Witness ==
    /\ reqErr = BadRsv /\ pc = "done" /\ cin.pos > 3
    /\ cout.out = <<VER, NO_AUTH_REQUIRED>>

\* C16: for a decoded request whose command is not CONNECT, Dial is never
\* called, no relay is started, and handleConn ends having written exactly
\* one reply, with the code 0x07.
C16_UnsupportedCommand ==
    (pc \notin {"auth", "readReq"} /\ authErr = NoErr /\ reqErr = NoErr
     /\ req.Code # REQ_CONNECT)
        => /\ dials = <<>> /\ socks = "none" /\ ~RelayStarted
           /\ pc \in {"switch", "done"}
           /\ pc = "switch" => replies = <<>>
           /\ pc = "done"
                 => /\ Len(replies) = 1
                    /\ replies[1].Code = REP_CMD_NOT_SUPPORTED
                    /\ ConnWritesOk
                          => (AfterMethodReply = Encoded(replies[1])
                              /\ SubSeq(AfterMethodReply, 1, 2)
                                    = <<VER, REP_CMD_NOT_SUPPORTED>>)

\* a UDP ASSOCIATE request was answered with 0x07
C16_Witness ==
    /\ pc = "done" /\ req.Code = REQ_UDP_ASSOCIATE /\ dials = <<>>
    /\ Len(cout.out) > 3 /\ cout.out[4] = REP_CMD_NOT_SUPPORTED

\* doCopy has returned
DoCopyReturned == pc \in {"closeConn", "closeSocks"} \/ (pc = "done" /\ RelayStarted)

\* C17: doCopy returns only after both copies have ended: once it has
\* returned neither io.Copy is reading, writing or holding bytes, and the
\* step by which it returns starts from a state where both have ended.
C17_ReturnsAfterBothCopies ==
    [][/\ (~DoCopyReturned /\ DoCopyReturned')
             => (c2s = "done" /\ s2c = "done" /\ pcG = "send")
       /\ DoCopyReturned'
             => (c2s' = "done" /\ s2c' = "done"
                 /\ c2sBuf' = <<>> /\ s2cBuf' = <<>>)]_vars

\* doCopy has returned after the backend went away while the client's
\* stream was still open
C17_Witness ==
    /\ pc = "closeConn" /\ c2s = "done" /\ s2c = "done"
    /\ backend = "gone" /\ client = "open"

\* the source of a copy direction is at its end / its destination fails
ClientStreamEnded == cin.eof /\ cin.pos >= Len(cin.data)
BackendStreamEnded == bin.eof /\ bin.pos >= Len(bin.data)

\* C18: a copy direction ends only at the end of its own source or at an
\* error of its own Write, never because the other direction ended; and
\* after the other direction has ended it still reads the bytes at hand
\* and hands them to its destination unchanged.
C18_DirectionsIndependent ==
    [][/\ (s2c # "done" /\ s2c' = "done")
             => \/ s2c = "read" /\ BackendStreamEnded
                \/ s2c = "write" /\ WriterFails(cout)
       /\ (c2s # "done" /\ c2s' = "done")
             => \/ c2s = "read" /\ ClientStreamEnded
                \/ c2s = "write" /\ WriterFails(bout)
       /\ (c2s = "done" /\ s2c = "read" /\ bin.pos < Len(bin.data))
             => ENABLED CopyGoRead
       /\ (s2c = "done" /\ c2s = "read" /\ cin.pos < Len(cin.data))
             => ENABLED CopyMainRead
       /\ (c2s = "done" /\ s2c = "write" /\ s2c' # "write" /\ ~WriterFails(cout))
             => (cout'.out = cout.out \o s2cBuf /\ s2c' = "read")
       /\ (s2c = "done" /\ c2s = "write" /\ c2s' # "write" /\ ~WriterFails(bout))
             => (bout'.out = bout.out \o c2sBuf /\ c2s' = "read")]_vars

\* the copy towards the backend has ended and the goroutine is about to
\* write bytes of the backend to the client
C18_Witness ==
    /\ c2s = "done" /\ pcG = "copy" /\ s2c = "write" /\ s2cBuf # <<>>
    /\ ~WriterFails(cout)

\* C19 (the claim as stated): every reply handed to WriteTo has an address
\* type among 0x01, 0x03, 0x04 with an address of the matching length, and
\* Msg.ReadFrom decodes its bytes without error.
C19_RepliesWellFormed ==
    \A i \in 1..Len(replies) :
        LET m == replies[i]
            d == MsgReadFrom(ZeroMsg, NewReader(Encoded(m)))
        IN  /\ m.Addr.Atyp \in KnownAtyps
            /\ m.Addr.Atyp = ATYP_IPV4 => Len(m.Addr.IPAddr) = 4
            /\ m.Addr.Atyp = ATYP_IPV6 => Len(m.Addr.IPAddr) = 16
            /\ m.Addr.Atyp = ATYP_DOMAINNAME => Len(m.Addr.DomainName) <= 255
            /\ d.err = NoErr

\* C20: in every fair run of the two goroutines, once both copies have
\* ended the send on done meets the receive: the goroutine exits and
\* doCopy returns.
C20_DoneRendezvous ==
    (RelayStarted /\ c2s = "done" /\ s2c = "done")
        ~> (pcG = "exit" /\ DoCopyReturned)

\* the goroutine has exited and doCopy has returned on a run where the
\* backend's stream ended first and the client went away afterwards
C20_Witness ==
    /\ pcG = "exit" /\ pc = "closeSocks" /\ backend = "shut" /\ client = "gone"
    /\ c2s = "done" /\ s2c = "done"

=============================================================================
